---- MODULE Spec2Model ----
(***************************************************************************)
(* pokerhelper front end: the analysis view (useWebSocket, useScreenCapture *)
(* and the auto-analyze loop of App) and the labeling view (TrainingPage,   *)
(* QuickLabelBar, LabelingCanvas).                                          *)
(*                                                                          *)
(* One step of the model is one task of the browser's event loop: a user    *)
(* event handler, a socket event, a timer callback or the continuation of   *)
(* an awaited request.  The state updates the task queues and the effects   *)
(* React runs for them (cleanup, then setup, of every effect whose          *)
(* dependencies changed) are part of the same step.                         *)
(***************************************************************************)
EXTENDS Integers, Sequences, FiniteSets, Bags, TLC

(***************************************************************************)
(* Bounds of the model.                                                     *)
(***************************************************************************)
MaxSockets == 3
MaxSends == 1
MaxStreams == 1
MaxBoxes == 3
MaxInFlight == 1
MaxSaves == 1
MaxRequests == 2
MaxKeys == 3
MaxTime == 4
MaxCalls == 2
MaxImages == 2

Sockets == 1..MaxSockets
Streams == 1..MaxStreams
NoSocket == 0
NoTimer == 0
NoStream == 0

\* ConnectionStatus, src/frontend/src/types/poker.ts:83
ConnectionStatus == {"disconnected", "connecting", "connected", "error"}
\* WebSocket.readyState; NONE marks a socket that has not been constructed
ReadyState == {"NONE", "CONNECTING", "OPEN", "CLOSING", "CLOSED"}
\* the <option> values of the FPS selector
FpsOptions == {1, 2, 5}

VARIABLES
  \* ---- useWebSocket
  status,               \* useState<ConnectionStatus>
  wsRef,                \* wsRef.current: a socket or NoSocket
  reconnectTimeoutRef,  \* reconnectTimeoutRef.current: a timer id or NoTimer
  readyState,           \* readyState of every socket constructed so far
  nsock,                \* number of sockets constructed
  timers,               \* armed reconnect timeouts (window.setTimeout ids)
  ncloses,              \* close events delivered (= timeouts created)
  inTask,               \* socket whose error event was dispatched and whose
                        \* close event follows in the same task, or NoSocket
  urlOk,                \* whether new WebSocket(url) succeeds for WS_URL
  mounted,              \* the owning component is mounted
  \* ---- useWebSocket, observation
  everDisconnected,     \* disconnect() has been called at least once
  stopped,              \* disconnect() called and no explicit connect() since
  explicitConnects,     \* connect() calls of the owner: 0, 1, or 2 for more
  retries,              \* connection attempts made by a reconnect timeout
  sendCalls,            \* calls of sendFrame
  txCount,              \* frames handed to WebSocket.send
  lastSend,             \* the latest sendFrame call
  \* ---- useScreenCapture
  isCapturing,          \* useState(false)
  stream,               \* useState<MediaStream | null>
  videoSrc,             \* videoRef.current.srcObject
  liveTracks,           \* streams whose video track has not ended
  listeners,            \* streams whose track has the 'ended' listener
  nstreams,             \* streams granted by getDisplayMedia
  \* ---- App
  autoAnalyze,          \* useState(false)
  fps,                  \* useState(2)
  intervals,            \* armed setInterval timers of the auto-analyze loop
  lastSched,            \* what the auto-analyze effect did when it last ran
  \* ---- TrainingPage
  activeTab,            \* useState<TabType>('label')
  tIsCapturing,         \* TrainingPage's isCapturing, useState(false)
  videoRef,             \* videoRef.current: "hidden", "preview" or "none"
  capturedImage,        \* useState<string | null>: NoImage or Image
  boxes,                \* useState<BoundingBox[]>: records [id, classId]
  selectedBoxId,        \* useState<string | null>: an id or NoBox
  currentBoxIndex,      \* useState(0)
  isAutoCapture,        \* useState(false)
  autoAdvance,          \* useState(true)
  pending,              \* bag of requests in flight and armed timeouts
  \* ---- TrainingPage, observation
  lastLabeled,          \* index handleCardSelect found for the selection in
                        \* the latest step, NotLabeling after any other step
  sessionCount,         \* useState(0): images saved in this session
  imageNo,              \* still images captured so far: the number of
                        \* the current one
  origin,               \* bag of the requests in flight and the armed
                        \* timeouts, each with the number of the still
                        \* image of the render whose closure it holds
  posted,               \* persist requests sent, per still image
  inFlightLimit,        \* requests and timeouts let be outstanding at a
                        \* time
  \* ---- TrainingPage, dataset statistics and training status
  tMounted,             \* TrainingPage is mounted
  trainingProgress,     \* useState<TrainingProgress | null>: its status,
                        \* "null", or "error" for a body without a status
  datasetStats,         \* useState<DatasetStats | null>
  pollInterval,         \* the status seen by the callback of the armed
                        \* polling interval, "none" when none is armed
  requests,             \* bag of fetches in flight: stats, status, start,
                        \* cancel
  \* ---- TrainingPage, dataset statistics and training status, observation
  lastPoll,             \* the latest poll sent by the interval
  lastFetch,            \* how the latest status or stats fetch ended
  \* ---- the training service
  job,                  \* status of the training job of the service
  \* ---- CardSelector
  pendingRank,          \* useState<string | null>(null)
  lastKeyTime,          \* useState(0)
  rankTimeout,          \* deadline of the armed timeout, or NoDeadline
  now,                  \* Date.now(), in units of TimeUnit milliseconds
  \* ---- CardSelector, observation
  nkeys,                \* keys delivered to the keydown listener
  lastKey,              \* the latest of them
  awaiting,             \* rank of the newest rank key that no suit key,
                        \* Escape or unmount has followed, or NoRank
  \* ---- saveToDataset called on given arguments
  saveArgs,             \* capturedImage, imageSize, boxes, isAutoCapture
  saveResult            \* calls made, bodies posted, alerts shown

wsVars == <<status, wsRef, reconnectTimeoutRef, readyState, nsock, timers,
            ncloses, inTask, urlOk, mounted>>
wsObs == <<everDisconnected, stopped, explicitConnects, retries,
           sendCalls, txCount>>
capVars == <<isCapturing, stream, videoSrc, liveTracks, listeners, nstreams>>
appVars == <<autoAnalyze, fps, intervals, lastSched>>
streamVars == <<wsVars, wsObs, lastSend, capVars, appVars>>
dataVars == <<tMounted, trainingProgress, datasetStats, pollInterval,
              lastPoll, lastFetch>>
quickVars == <<pendingRank, lastKeyTime, rankTimeout, now, nkeys, lastKey,
               awaiting>>
persistVars == <<saveArgs, saveResult>>
sessionVars == <<imageNo, origin, posted, inFlightLimit>>
jobVars == <<job>>

(***************************************************************************)
(* useWebSocket                                                             *)
(***************************************************************************)

\* setStatus: React drops state updates of an unmounted component
SetStatus(v) == IF mounted THEN v ELSE status

\* wsRef.current?.readyState === WebSocket.OPEN
RefOpen == wsRef # NoSocket /\ readyState[wsRef] = "OPEN"

\* sockets that are a physical connection: connecting or open
LiveSockets == {s \in Sockets : readyState[s] \in {"CONNECTING", "OPEN"}}

\* the body of connect() after the early return: setStatus('connecting'),
\* then new WebSocket(...) and wsRef.current = ws, or the catch branch
connectAttempt ==
  IF urlOk
    THEN /\ nsock < MaxSockets
         /\ status' = SetStatus("connecting")
         /\ nsock' = nsock + 1
         /\ readyState' = [readyState EXCEPT ![nsock + 1] = "CONNECTING"]
         /\ wsRef' = nsock + 1
    ELSE /\ status' = SetStatus("error")
         /\ UNCHANGED <<nsock, readyState, wsRef>>

\* connect()
connect ==
  IF RefOpen
    THEN UNCHANGED <<status, nsock, readyState, wsRef>>
    ELSE connectAttempt

\* the auto-analyze effect of App, run for a change of its dependencies
\* [autoAnalyze, isCapturing, status, fps, captureFrame, sendFrame]:
\* the cleanup clears the interval of the previous run, the setup arms one
\* when autoAnalyze && isCapturing && status === 'connected'
SchedulerOnAnyStatus(a, c, s) == a /\ c

SchedulerOn(a, c, s) == a /\ c /\ s = "connected"

NewInterval(ivs, f) ==
  [id |-> (CHOOSE i \in 1..(Cardinality(ivs) + 1) :
              \A iv \in ivs : iv.id # i),
   fps |-> f]

AutoAnalyzeNoCleanup(ivs) == ivs

AutoAnalyzeCleanup(ivs) == {}

AutoAnalyzeSetup(ivs, a, c, s, f) ==
  IF SchedulerOn(a, c, s) THEN ivs \cup {NewInterval(ivs, f)} ELSE ivs

AutoAnalyzeEffect ==
  LET old == <<autoAnalyze, isCapturing, status, fps>>
      new == <<autoAnalyze', isCapturing', status', fps'>>
  IN IF old = new
       THEN UNCHANGED <<intervals, lastSched>>
       ELSE /\ intervals' = AutoAnalyzeSetup(AutoAnalyzeCleanup(intervals),
                                autoAnalyze', isCapturing', status', fps')
            /\ lastSched' =
                 IF intervals = {}
                   THEN (IF intervals' = {} THEN "idle" ELSE "armed")
                   ELSE (IF intervals' = {} THEN "cancelled" ELSE "replaced")

\* connect() called by the owner (App calls it from its mount effect)
Connect ==
  /\ mounted /\ inTask = NoSocket
  /\ connect
  /\ UNCHANGED <<reconnectTimeoutRef, timers, ncloses, inTask, urlOk, mounted,
                 lastSend, capVars, autoAnalyze, fps>>
  /\ AutoAnalyzeEffect

\* disconnect(): clearTimeout of the referenced timer, close() of the
\* referenced socket, setStatus('disconnected')
disconnect ==
  /\ timers' = IF reconnectTimeoutRef # NoTimer
                 THEN timers \ {reconnectTimeoutRef} ELSE timers
  /\ reconnectTimeoutRef' = NoTimer
  /\ readyState' = IF wsRef # NoSocket /\ readyState[wsRef] \in {"CONNECTING", "OPEN"}
                     THEN [readyState EXCEPT ![wsRef] = "CLOSING"]
                     ELSE readyState
  /\ wsRef' = NoSocket
  /\ status' = SetStatus("disconnected")

Disconnect ==
  /\ mounted /\ inTask = NoSocket
  /\ disconnect
  /\ UNCHANGED <<nsock, ncloses, inTask, urlOk, mounted, lastSend, capVars,
                 autoAnalyze, fps>>
  /\ AutoAnalyzeEffect

\* ws.onopen of socket s
SocketOpen(s) ==
  /\ inTask = NoSocket
  /\ readyState[s] = "CONNECTING"
  /\ readyState' = [readyState EXCEPT ![s] = "OPEN"]
  /\ status' = SetStatus("connected")
  /\ UNCHANGED <<wsRef, reconnectTimeoutRef, nsock, timers, ncloses, inTask,
                 urlOk, mounted, lastSend, capVars, autoAnalyze, fps>>
  /\ AutoAnalyzeEffect

\* the connection of socket s fails: the browser sets readyState to CLOSED
\* and dispatches error, then close, in one task; this is ws.onerror
SocketError(s) ==
  /\ inTask = NoSocket
  /\ readyState[s] \in {"CONNECTING", "OPEN", "CLOSING"}
  /\ readyState' = [readyState EXCEPT ![s] = "CLOSED"]
  /\ status' = SetStatus("error")
  /\ inTask' = s
  /\ UNCHANGED <<wsRef, reconnectTimeoutRef, nsock, timers, ncloses,
                 urlOk, mounted, lastSend, capVars, autoAnalyze, fps>>
  /\ AutoAnalyzeEffect

\* a close that arms no reconnect timeout
ArmReconnectNever(ts, id) == ts

\* window.setTimeout(() => connect(), 3000) in ws.onclose
ArmReconnect(ts, id) == ts \cup {id}

\* ws.onclose of socket s: after its error event, or a close without error
\* of an open or closing socket
SocketClose(s) ==
  /\ \/ inTask = s
     \/ inTask = NoSocket /\ readyState[s] \in {"OPEN", "CLOSING"}
  /\ readyState' = [readyState EXCEPT ![s] = "CLOSED"]
  /\ inTask' = NoSocket
  /\ status' = SetStatus("disconnected")
  /\ wsRef' = NoSocket
  /\ ncloses' = ncloses + 1
  /\ reconnectTimeoutRef' = ncloses + 1
  /\ timers' = ArmReconnect(timers, ncloses + 1)
  /\ UNCHANGED <<nsock, urlOk, mounted, lastSend, capVars, autoAnalyze, fps>>
  /\ AutoAnalyzeEffect

\* the callback of reconnect timeout t: connect()
ReconnectTimer(t) ==
  /\ inTask = NoSocket
  /\ t \in timers
  /\ timers' = timers \ {t}
  /\ connect
  /\ UNCHANGED <<reconnectTimeoutRef, ncloses, inTask, urlOk, mounted,
                 lastSend, capVars, autoAnalyze, fps>>
  /\ AutoAnalyzeEffect

\* sendFrame without the readyState test: every frame goes to the socket
sendFrameUnguarded(by) ==
  lastSend' = [by |-> by, st |-> status, cap |-> isCapturing, tx |-> TRUE]

\* sendFrame(frameData) called by `by`: ws.send when the referenced socket
\* is OPEN, nothing otherwise; lastSend records the call, the state at the
\* call and whether the frame went to the socket
sendFrame(by) ==
  lastSend' = [by |-> by, st |-> status, cap |-> isCapturing, tx |-> RefOpen]

\* sendFrame called directly by the owner of the hook
SendFrame ==
  /\ mounted /\ inTask = NoSocket
  /\ sendFrame("api")
  /\ UNCHANGED <<wsVars, capVars, appVars>>

(***************************************************************************)
(* useScreenCapture                                                         *)
(***************************************************************************)

\* captureFrame(): null unless isCapturing; the data URL of a canvas of the
\* video's size, which is empty when the video shows no live stream
captureFrame ==
  isCapturing /\ videoSrc # NoStream /\ videoSrc \in liveTracks

\* startCapture(): getDisplayMedia is refused, or play() rejects after the
\* stream was granted, or capture starts
StartCapture ==
  /\ mounted /\ inTask = NoSocket
  /\ ~isCapturing
  /\ \E outcome \in {"denied", "playFails", "ok"} :
       \/ /\ outcome = "denied"
          /\ UNCHANGED capVars
       \/ /\ outcome = "playFails"
          /\ nstreams < MaxStreams
          /\ nstreams' = nstreams + 1
          /\ liveTracks' = liveTracks \cup {nstreams + 1}
          /\ videoSrc' = nstreams + 1
          /\ UNCHANGED <<isCapturing, stream, listeners>>
       \/ /\ outcome = "ok"
          /\ nstreams < MaxStreams
          /\ nstreams' = nstreams + 1
          /\ liveTracks' = liveTracks \cup {nstreams + 1}
          /\ videoSrc' = nstreams + 1
          /\ stream' = nstreams + 1
          /\ isCapturing' = TRUE
          /\ listeners' = listeners \cup {nstreams + 1}
  /\ UNCHANGED <<wsVars, lastSend, autoAnalyze, fps>>
  /\ AutoAnalyzeEffect

\* stopCapture() of the current render (Stop Capture button)
StopCapture ==
  /\ mounted /\ inTask = NoSocket
  /\ isCapturing
  /\ liveTracks' = IF stream # NoStream THEN liveTracks \ {stream} ELSE liveTracks
  /\ videoSrc' = NoStream
  /\ stream' = NoStream
  /\ isCapturing' = FALSE
  /\ UNCHANGED <<listeners, nstreams, wsVars, lastSend, autoAnalyze, fps>>
  /\ AutoAnalyzeEffect

\* the video track of stream s ends (the user stops sharing); its listener
\* runs the stopCapture of the first render, whose `stream` is null
TrackEnded(s) ==
  /\ inTask = NoSocket
  /\ s \in liveTracks
  /\ liveTracks' = liveTracks \ {s}
  /\ IF s \in listeners
       THEN /\ videoSrc' = NoStream
            /\ stream' = IF mounted THEN NoStream ELSE stream
            /\ isCapturing' = IF mounted THEN FALSE ELSE isCapturing
       ELSE UNCHANGED <<videoSrc, stream, isCapturing>>
  /\ UNCHANGED <<listeners, nstreams, wsVars, lastSend, autoAnalyze, fps>>
  /\ AutoAnalyzeEffect

(***************************************************************************)
(* App: the auto-analyze loop and the manual trigger                        *)
(***************************************************************************)

\* the callback of the interval: captureFrame(), sendFrame(frame) if a frame
Tick(iv) ==
  /\ inTask = NoSocket
  /\ iv \in intervals
  /\ IF captureFrame
       THEN sendFrame("tick")
       ELSE UNCHANGED lastSend
  /\ UNCHANGED <<wsVars, capVars, appVars>>

\* handleAnalyze: the Analyze Frame button, disabled unless
\* isCapturing && status === 'connected'
HandleAnalyze ==
  /\ mounted /\ inTask = NoSocket
  /\ isCapturing /\ status = "connected"
  /\ IF captureFrame
       THEN sendFrame("manual")
       ELSE UNCHANGED lastSend
  /\ UNCHANGED <<wsVars, capVars, appVars>>

\* the Auto-analyze checkbox, disabled unless isCapturing
SetAutoAnalyze(b) ==
  /\ mounted /\ inTask = NoSocket
  /\ isCapturing
  /\ b # autoAnalyze
  /\ autoAnalyze' = b
  /\ UNCHANGED <<wsVars, lastSend, capVars, fps>>
  /\ AutoAnalyzeEffect

\* the FPS selector
SetFps(f) ==
  /\ mounted /\ inTask = NoSocket
  /\ f # fps
  /\ fps' = f
  /\ UNCHANGED <<wsVars, lastSend, capVars, autoAnalyze>>
  /\ AutoAnalyzeEffect

\* the owner unmounts: cleanup of the auto-analyze effect, disconnect() from
\* the cleanups of App and useWebSocket, and the cleanup of useScreenCapture,
\* which stops the tracks of the current stream
Teardown ==
  /\ mounted /\ inTask = NoSocket
  /\ disconnect
  /\ mounted' = FALSE
  /\ intervals' = AutoAnalyzeCleanup(intervals)
  /\ lastSched' = IF intervals = {} THEN lastSched ELSE "cancelled"
  /\ liveTracks' = IF stream # NoStream THEN liveTracks \ {stream} ELSE liveTracks
  /\ UNCHANGED <<nsock, ncloses, inTask, urlOk, lastSend, isCapturing, stream,
                 videoSrc, listeners, nstreams, autoAnalyze, fps>>

StreamInit ==
  /\ status = "disconnected"
  /\ wsRef = NoSocket
  /\ reconnectTimeoutRef = NoTimer
  /\ readyState = [s \in Sockets |-> "NONE"]
  /\ nsock = 0
  /\ timers = {}
  /\ ncloses = 0
  /\ inTask = NoSocket
  /\ urlOk \in BOOLEAN
  /\ mounted = TRUE
  /\ everDisconnected = FALSE
  /\ stopped = FALSE
  /\ explicitConnects = 0
  /\ retries = 0
  /\ sendCalls = 0
  /\ txCount = 0
  /\ lastSend = [by |-> "none", st |-> "disconnected", cap |-> FALSE, tx |-> FALSE]
  /\ isCapturing = FALSE
  /\ stream = NoStream
  /\ videoSrc = NoStream
  /\ liveTracks = {}
  /\ listeners = {}
  /\ nstreams = 0
  /\ autoAnalyze = FALSE
  /\ fps = 2
  /\ intervals = {}
  /\ lastSched = "idle"

(***************************************************************************)
(* The labeling view: TrainingPage with its LabelingCanvas, CardSelector   *)
(* and QuickLabelBar.  The region collection is `boxes`, the selection id  *)
(* is `selectedBoxId`, the cursor is `currentBoxIndex` (0-based, as in the *)
(* source).  A region created by drawing gets the id box-<Date.now()>;     *)
(* two drawing gestures never end in the same millisecond, so that id is   *)
(* one no region and no selection currently carries.  Requests and timers  *)
(* that have not completed are kept in the bag `pending`.  The canvas mode   *)
(* (select or draw) is not a variable: its two buttons are offered exactly  *)
(* when the canvas takes clicks, so either gesture is one click away.  The   *)
(* tabs 'calibrate' and 'validate' show none of the labeling components and *)
(* are one value here.                                                      *)
(***************************************************************************)

NoBox == -1
NoClass == -1
NotLabeling == -2
Unmounted == -2
NoImage == 0
Image == 1
Tabs == {"label", "calibrate"}

\* class ids of two cards of the CardSelector: the code compares a classId
\* with undefined and with the classId of the previous render only
Classes == {0, 1}

\* region lists the detection endpoint can answer with: each region carries
\* a suggested class or none
DetectionResults ==
  UNION {[1..n -> Classes \cup {NoClass}] : n \in 0..MaxBoxes}

BoxIds(b) == {b[i].id : i \in 1..Len(b)}

\* indices of the regions without a label
Unlabeled(b) == {i \in 0..(Len(b) - 1) : b[i + 1].classId = NoClass}

Min(S) == CHOOSE x \in S : \A y \in S : x <= y

\* Array.prototype.findIndex on the region ids: -1 when absent
findIndex(b, id) ==
  IF id \in BoxIds(b) THEN Min({i \in 0..(Len(b) - 1) : b[i + 1].id = id})
  ELSE -1

\* box-<Date.now()>: an id different from every detection id and from every
\* id still referred to
NewBoxId(b, s) ==
  Min({i \in MaxBoxes..(2 * MaxBoxes) : i \notin BoxIds(b) \cup {s}})

\* currentBox?.classId of the QuickLabelBar
Dep(b, c) == IF c < Len(b) THEN b[c + 1].classId ELSE NoClass

\* the QuickLabelBar is rendered
BarMounted(tab, img, b) == tab = "label" /\ img # NoImage /\ Len(b) > 0

\* the live preview <video> is rendered
PreviewMounted(cap, img) == cap /\ img = NoImage

\* body of the QuickLabelBar effect: the index it hands to onIndexChange
QuickLabelAdvance(b, c) ==
  IF Dep(b, c) = NoClass THEN c
  ELSE LET after == {i \in Unlabeled(b) : i > c}
       IN  IF after # {} THEN Min(after)
           ELSE IF Unlabeled(b) # {} THEN Min(Unlabeled(b))
           ELSE c

\* body of the TrainingPage effect that syncs the selection with the cursor
SyncSelected(b, s, c) ==
  IF Len(b) > 0 /\ c < Len(b) THEN b[c + 1].id ELSE s

\* The effects of one commit and of the re-renders they cause: the
\* QuickLabelBar effect runs when the bar mounts or its dependency differs
\* from the previous render's (prev), the sync effect when the cursor or
\* the array changed (e2); both see the values of the render they belong to.
RECURSIVE Settle(_, _, _, _, _, _)
Settle(m, prev, b, s, c, e2) ==
  LET dep == IF m THEN Dep(b, c) ELSE Unmounted
      c1  == IF m /\ prev # dep THEN QuickLabelAdvance(b, c) ELSE c
      s1  == IF e2 THEN SyncSelected(b, s, c) ELSE s
  IN  IF c1 = c THEN [sel |-> s1, cur |-> c]
      ELSE Settle(m, dep, b, s1, c1, TRUE)

\* a handler left tab, image, array b, selection s and cursor c; boxesSet
\* tells whether it called setBoxes
Commit(tab, img, b, s, c, boxesSet) ==
  LET prev == IF BarMounted(activeTab, capturedImage, boxes)
              THEN Dep(boxes, currentBoxIndex) ELSE Unmounted
      r == Settle(BarMounted(tab, img, b), prev, b, s, c,
                  boxesSet \/ c # currentBoxIndex)
  IN  /\ boxes' = b
      /\ selectedBoxId' = r.sel
      /\ currentBoxIndex' = r.cur

\* videoRef is attached to the hidden <video> and to the preview <video>:
\* mounting the preview points it there, unmounting the preview clears it
RefAfter(cap, img) ==
  IF PreviewMounted(cap, img) = PreviewMounted(tIsCapturing, capturedImage)
  THEN videoRef
  ELSE IF PreviewMounted(cap, img) THEN "preview" ELSE "none"

Pending(k, f) == [k |-> k, flag |-> f]
One(x) == SetToBag({x})
Room(n) == BagCardinality(pending) + n <= inFlightLimit

labelCore == <<boxes, selectedBoxId, currentBoxIndex>>
labelVars == <<activeTab, tIsCapturing, videoRef, capturedImage,
               labelCore, isAutoCapture, autoAdvance, pending,
               lastLabeled>>

\* everything of the training page
pageVars == <<labelVars, sessionCount, requests, dataVars, quickVars,
              persistVars, sessionVars, jobVars>>

\* what the handlers of the labeling view leave alone
offLabel == <<streamVars, sessionCount, requests, dataVars, quickVars,
              persistVars, sessionVars, jobVars>>

NoRank == "none"
NoDeadline == -1
NoKey == [kind |-> "none", key |-> "none"]
NoPoll == [st |-> "none", mounted |-> TRUE]

\* the arguments and the record of saveToDataset while it is not under test
NoArgs == [image |-> NoImage, size |-> [width |-> 0, height |-> 0],
           boxes |-> <<>>, auto |-> FALSE]
NoResult == [calls |-> 0, posted |-> <<>>, alerts |-> 0]

\* CardSelector as mounted: no pending rank, no timeout
QuickInit ==
  /\ pendingRank = NoRank
  /\ lastKeyTime = 0
  /\ rankTimeout = NoDeadline
  /\ now = 0
  /\ nkeys = 0
  /\ lastKey = NoKey
  /\ awaiting = NoRank

\* TrainingPage after its mount effects: the polling interval is armed and
\* the initial fetches of statistics and status are in flight
DataInit ==
  /\ job = "idle"
  /\ sessionCount = 0
  /\ tMounted = TRUE
  /\ trainingProgress = "null"
  /\ datasetStats = "null"
  /\ pollInterval = "null"
  /\ requests = SetToBag({"stats", "status"})
  /\ lastPoll = NoPoll
  /\ lastFetch = "none"

\* no still image yet, nothing in flight, nothing posted
SessionInit ==
  /\ imageNo = 0
  /\ origin = EmptyBag
  /\ posted = [i \in 1..MaxImages |-> 0]
  /\ inFlightLimit = MaxInFlight

LabelInit ==
  /\ QuickInit
  /\ DataInit
  /\ saveArgs = NoArgs
  /\ saveResult = NoResult
  /\ activeTab = "label"
  /\ tIsCapturing = FALSE
  /\ videoRef = "hidden"
  /\ capturedImage = NoImage
  /\ boxes = <<>>
  /\ selectedBoxId = NoBox
  /\ currentBoxIndex = 0
  /\ isAutoCapture = FALSE
  /\ autoAdvance = TRUE
  /\ pending = EmptyBag
  /\ lastLabeled = NotLabeling

\* startCapture: the user may refuse, play() may reject; without a video
\* element behind videoRef nothing is shown and isCapturing stays false
TStartCapture ==
  /\ ~tIsCapturing
  /\ \E granted \in BOOLEAN, played \in BOOLEAN :
       IF granted /\ played /\ videoRef # "none"
       THEN /\ tIsCapturing' = TRUE
            /\ videoRef' = RefAfter(TRUE, capturedImage)
       ELSE UNCHANGED <<tIsCapturing, videoRef>>
  /\ lastLabeled' = NotLabeling
  /\ UNCHANGED <<activeTab, capturedImage, labelCore, isAutoCapture,
                 autoAdvance, pending>>

\* the Stop button
TStopCapture ==
  /\ tIsCapturing
  /\ tIsCapturing' = FALSE
  /\ isAutoCapture' = FALSE
  /\ videoRef' = RefAfter(FALSE, capturedImage)
  /\ lastLabeled' = NotLabeling
  /\ UNCHANGED <<activeTab, capturedImage, labelCore,
                 autoAdvance, pending>>

\* onended of the track being shown
TTrackEnded ==
  /\ tIsCapturing
  /\ tIsCapturing' = FALSE
  /\ isAutoCapture' = FALSE
  /\ videoRef' = RefAfter(FALSE, capturedImage)
  /\ lastLabeled' = NotLabeling
  /\ UNCHANGED <<activeTab, capturedImage, labelCore, autoAdvance, pending>>

\* captureFrame(), then the auto-detect effect when capturedImage changed;
\* p is the bag the caller leaves
tCaptureFrame(p) ==
  IF videoRef = "none"
  THEN /\ pending' = p
       /\ UNCHANGED <<capturedImage, labelCore, videoRef>>
  ELSE \E changed \in BOOLEAN :
         LET run == capturedImage = NoImage \/ changed
         IN  /\ run => BagCardinality(p) < inFlightLimit
             /\ pending' = IF run THEN p (+) One(Pending("detect", isAutoCapture))
                           ELSE p
             /\ capturedImage' = Image
             /\ Commit(activeTab, Image, <<>>, NoBox, 0, TRUE)
             /\ videoRef' = RefAfter(tIsCapturing, Image)

\* the Capture button
TCaptureFrame ==
  /\ tIsCapturing
  /\ tCaptureFrame(pending)
  /\ lastLabeled' = NotLabeling
  /\ UNCHANGED <<activeTab, tIsCapturing, isAutoCapture,
                 autoAdvance>>

\* a tick of the auto-capture interval
AutoCaptureTick ==
  /\ isAutoCapture /\ tIsCapturing
  /\ tCaptureFrame(pending)
  /\ lastLabeled' = NotLabeling
  /\ UNCHANGED <<activeTab, tIsCapturing, isAutoCapture,
                 autoAdvance>>

\* setTimeout(captureFrame, 500) armed by a successful save
CaptureTimer ==
  /\ BagIn(Pending("captureTimer", FALSE), pending)
  /\ tCaptureFrame(pending (-) One(Pending("captureTimer", FALSE)))
  /\ lastLabeled' = NotLabeling
  /\ UNCHANGED <<activeTab, tIsCapturing, isAutoCapture,
                 autoAdvance>>

\* the Detect button: autoDetect() sends the request
DetectClick ==
  /\ activeTab = "label" /\ capturedImage # NoImage
  /\ Room(1)
  /\ pending' = pending (+) One(Pending("detect", isAutoCapture))
  /\ lastLabeled' = NotLabeling
  /\ UNCHANGED <<activeTab, tIsCapturing, videoRef, capturedImage,
                 labelCore, isAutoCapture, autoAdvance>>

\* autoDetect() after the response res, for the call made while
\* isAutoCapture was f: the regions replace the collection
DetectResponseOf(f, res) ==
    LET d == Pending("detect", f)
        newBoxes == [i \in 1..Len(res) |-> [id |-> i - 1, classId |-> res[i]]]
        allLabeled == Unlabeled(newBoxes) = {}
        p == pending (-) One(d)
    IN  /\ BagIn(d, pending)
        /\ Commit(activeTab, capturedImage, newBoxes, selectedBoxId, 0, TRUE)
        /\ pending' = IF allLabeled /\ Len(newBoxes) > 0 /\ f
                      THEN p (+) One(Pending("saveTimer", TRUE)) ELSE p
        /\ lastLabeled' = NotLabeling
        /\ UNCHANGED <<activeTab, tIsCapturing, videoRef,
                       capturedImage, isAutoCapture, autoAdvance>>

DetectResponse ==
  \E f \in BOOLEAN, res \in DetectionResults : DetectResponseOf(f, res)

\* autoDetect() when the request fails or the answer has no region list
DetectFail ==
  \E f \in BOOLEAN :
    /\ BagIn(Pending("detect", f), pending)
    /\ pending' = pending (-) One(Pending("detect", f))
    /\ lastLabeled' = NotLabeling
    /\ UNCHANGED <<activeTab, tIsCapturing, videoRef, capturedImage,
                   labelCore, isAutoCapture, autoAdvance>>

\* a box drawn on the canvas in draw mode
handleBoxCreate ==
  LET id == NewBoxId(boxes, selectedBoxId)
  IN  Commit(activeTab, capturedImage,
             Append(boxes, [id |-> id, classId |-> NoClass]), id,
             Len(boxes), TRUE)

BoxCreate ==
  /\ activeTab = "label" /\ capturedImage # NoImage
  /\ Len(boxes) < MaxBoxes
  /\ handleBoxCreate
  /\ lastLabeled' = NotLabeling
  /\ UNCHANGED <<activeTab, tIsCapturing, videoRef, capturedImage,
                 isAutoCapture, autoAdvance, pending>>

\* a click on the canvas in select mode: on a box, or on none
BoxSelect ==
  /\ activeTab = "label" /\ capturedImage # NoImage
  /\ \E id \in BoxIds(boxes) \cup {NoBox} :
       Commit(activeTab, capturedImage, boxes, id, currentBoxIndex, FALSE)
  /\ lastLabeled' = NotLabeling
  /\ UNCHANGED <<activeTab, tIsCapturing, videoRef, capturedImage,
                 isAutoCapture, autoAdvance, pending>>

\* the keydown listener of the CardSelector is registered
QuickEnabled == activeTab = "label" /\ selectedBoxId # NoBox

\* Escape in the CardSelector: the pending rank and its timeout are dropped
QuickEscape ==
  /\ IF QuickEnabled
     THEN /\ pendingRank' = NoRank
          /\ rankTimeout' = NoDeadline
          /\ awaiting' = NoRank
     ELSE UNCHANGED <<pendingRank, rankTimeout, awaiting>>
  /\ UNCHANGED <<lastKeyTime, now, nkeys, lastKey>>

\* the Escape key: the listener of the LabelingCanvas and, when it is
\* registered, the listener of the CardSelector
BoxDeselect ==
  /\ activeTab = "label"
  /\ Commit(activeTab, capturedImage, boxes, NoBox, currentBoxIndex, FALSE)
  /\ QuickEscape
  /\ lastLabeled' = NotLabeling
  /\ UNCHANGED <<activeTab, tIsCapturing, videoRef, capturedImage,
                 isAutoCapture, autoAdvance, pending>>

\* cursor written by handleBoxDelete without the Math.max
DeleteCursorUnclamped(c) == c

\* cursor written by handleBoxDelete when the deleted box was selected
DeleteCursor(c) == IF c - 1 > 0 THEN c - 1 ELSE 0

handleBoxDelete(boxId) ==
  LET newBoxes == SelectSeq(boxes, LAMBDA x : x.id # boxId)
  IN  IF selectedBoxId = boxId
      THEN Commit(activeTab, capturedImage, newBoxes, NoBox,
                  DeleteCursor(currentBoxIndex), TRUE)
      ELSE Commit(activeTab, capturedImage, newBoxes, selectedBoxId,
                  currentBoxIndex, TRUE)

\* the Delete or Backspace key
BoxDelete ==
  /\ activeTab = "label" /\ selectedBoxId # NoBox
  /\ handleBoxDelete(selectedBoxId)
  /\ lastLabeled' = NotLabeling
  /\ UNCHANGED <<activeTab, tIsCapturing, videoRef, capturedImage,
                 isAutoCapture, autoAdvance, pending>>

\* the previous, next and jump-to-unlabeled buttons of the QuickLabelBar
Navigate ==
  /\ BarMounted(activeTab, capturedImage, boxes)
  /\ \E c \in 0..(Len(boxes) - 1) :
       /\ \/ currentBoxIndex # 0 /\ c = IF currentBoxIndex - 1 > 0
                                        THEN currentBoxIndex - 1 ELSE 0
          \/ /\ currentBoxIndex < Len(boxes) - 1
             /\ c = IF Len(boxes) - 1 < currentBoxIndex + 1
                    THEN Len(boxes) - 1 ELSE currentBoxIndex + 1
          \/ Unlabeled(boxes) # {} /\ c = Min(Unlabeled(boxes))
       /\ Commit(activeTab, capturedImage, boxes, selectedBoxId, c, FALSE)
  /\ lastLabeled' = NotLabeling
  /\ UNCHANGED <<activeTab, tIsCapturing, videoRef, capturedImage,
                 isAutoCapture, autoAdvance, pending>>

\* handleCardSelect: the unlabeled indices after k in the array of the
\* render the handler belongs to
NextUnlabeled(b, k) == {i \in Unlabeled(b) : i > k}

\* handleCardSelect arming the save in manual mode too
ArmsSaveInAnyMode(updatedBoxes, after) ==
  /\ autoAdvance /\ after = {}
  /\ Unlabeled(updatedBoxes) = {} /\ Len(updatedBoxes) > 0

\* handleCardSelect reaches setTimeout(() => saveToDataset(updatedBoxes), 300)
ArmsSave(updatedBoxes, after) ==
  /\ autoAdvance /\ after = {}
  /\ Unlabeled(updatedBoxes) = {} /\ Len(updatedBoxes) > 0
  /\ isAutoCapture

\* the map without the test of the id: every region gets the class
withClassOnAll(b, id, cls) ==
  [i \in 1..Len(b) |-> [b[i] EXCEPT !.classId = cls]]

\* boxes.map(b => b.id === selectedBoxId ? {...b, classId} : b)
withClass(b, id, cls) ==
  [i \in 1..Len(b) |-> IF b[i].id = id THEN [b[i] EXCEPT !.classId = cls]
                       ELSE b[i]]

\* n copies of x
Copies(x, n) == [e \in {x} |-> n]

\* handleCardSelect(card, classId) called n times in one task, each call
\* with the values of the same render
cardSelect(cls, n) ==
  LET updatedBoxes == withClass(boxes, selectedBoxId, cls)
      currentIdx == findIndex(boxes, selectedBoxId)
      after == NextUnlabeled(boxes, currentIdx)
      arm == ArmsSave(updatedBoxes, after)
  IN  /\ arm => Room(n)
      /\ pending' = IF arm
                    THEN pending (+) Copies(Pending("saveTimer", capturedImage # NoImage), n)
                    ELSE pending
      /\ Commit(activeTab, capturedImage, updatedBoxes, selectedBoxId,
                IF autoAdvance /\ after # {} THEN Min(after)
                ELSE currentBoxIndex, TRUE)
      /\ lastLabeled' = currentIdx

\* handleCardSelect(card, classId)
handleCardSelect(cls) == cardSelect(cls, 1)

\* handleKeyboardSelect(card): onSelect and onQuickSelect are both
\* handleCardSelect
handleKeyboardSelect(cls) == cardSelect(cls, 2)

\* a card button of the CardSelector
AssignLabel ==
  /\ activeTab = "label" /\ selectedBoxId # NoBox
  /\ \E cls \in Classes : handleCardSelect(cls)
  /\ UNCHANGED <<activeTab, tIsCapturing, videoRef, capturedImage,
                 isAutoCapture, autoAdvance>>

\* the Save button: saveToDataset() sends the request
SaveClick ==
  /\ activeTab = "label" /\ capturedImage # NoImage
  /\ Unlabeled(boxes) # 0..(Len(boxes) - 1)
  /\ Room(1)
  /\ pending' = pending (+) One(Pending("save", isAutoCapture /\ tIsCapturing))
  /\ lastLabeled' = NotLabeling
  /\ UNCHANGED <<activeTab, tIsCapturing, videoRef, capturedImage,
                 labelCore, isAutoCapture, autoAdvance>>

\* setTimeout(() => saveToDataset(boxes), ...) of the auto mode fires
SaveTimer ==
  \E img \in BOOLEAN :
    LET t == Pending("saveTimer", img)
        p == pending (-) One(t)
    IN  /\ BagIn(t, pending)
        /\ pending' = IF img THEN p (+) One(Pending("save", TRUE)) ELSE p
        /\ lastLabeled' = NotLabeling
        /\ UNCHANGED <<activeTab, tIsCapturing, videoRef,
                       capturedImage, labelCore, isAutoCapture,
                       autoAdvance>>

\* the success branch leaving the selection as it is
SaveClearedButSelection ==
  /\ capturedImage' = NoImage
  /\ Commit(activeTab, NoImage, <<>>, selectedBoxId, 0, TRUE)
  /\ videoRef' = RefAfter(tIsCapturing, NoImage)

\* the success branch of saveToDataset clears the session
SaveCleared ==
  /\ capturedImage' = NoImage
  /\ Commit(activeTab, NoImage, <<>>, NoBox, 0, TRUE)
  /\ videoRef' = RefAfter(tIsCapturing, NoImage)

\* saveToDataset() after the response
SaveResponse ==
  \E recap \in BOOLEAN, ok \in BOOLEAN :
    LET s == Pending("save", recap)
        p == pending (-) One(s)
    IN  /\ BagIn(s, pending)
        /\ IF ok
           THEN /\ sessionCount < MaxSaves
                /\ sessionCount' = sessionCount + 1
                /\ SaveCleared
                /\ requests' = requests (+) One("stats")
                /\ pending' = IF recap
                              THEN p (+) One(Pending("captureTimer", FALSE))
                              ELSE p
           ELSE /\ pending' = p
                /\ UNCHANGED <<capturedImage, labelCore, videoRef,
                               sessionCount, requests>>
        /\ lastLabeled' = NotLabeling
        /\ UNCHANGED <<activeTab, tIsCapturing, isAutoCapture,
                       autoAdvance>>

\* the CardSelector is rendered on the label tab only: leaving the tab
\* unmounts it, which clears its timeout and discards its state
QuickUnmount(tab) ==
  /\ IF tab = "label"
     THEN UNCHANGED <<pendingRank, lastKeyTime, rankTimeout, awaiting>>
     ELSE /\ pendingRank' = NoRank
          /\ lastKeyTime' = 0
          /\ rankTimeout' = NoDeadline
          /\ awaiting' = NoRank
  /\ UNCHANGED <<now, nkeys, lastKey>>

\* the tab buttons
SetActiveTab ==
  /\ \E tab \in Tabs :
       /\ activeTab' = tab
       /\ Commit(tab, capturedImage, boxes, selectedBoxId, currentBoxIndex,
                 FALSE)
       /\ QuickUnmount(tab)
  /\ lastLabeled' = NotLabeling
  /\ UNCHANGED <<tIsCapturing, videoRef, capturedImage,
                 isAutoCapture, autoAdvance, pending>>

\* the Auto-capture checkbox
SetIsAutoCapture ==
  /\ tIsCapturing /\ activeTab = "label"
  /\ isAutoCapture' = ~isAutoCapture
  /\ lastLabeled' = NotLabeling
  /\ UNCHANGED <<activeTab, tIsCapturing, videoRef, capturedImage,
                 labelCore, autoAdvance, pending>>

\* the Auto-advance checkbox of the QuickLabelBar
SetAutoAdvance ==
  /\ BarMounted(activeTab, capturedImage, boxes)
  /\ autoAdvance' = ~autoAdvance
  /\ lastLabeled' = NotLabeling
  /\ UNCHANGED <<activeTab, tIsCapturing, videoRef, capturedImage,
                 labelCore, isAutoCapture, pending>>

(***************************************************************************)
(* The keyboard input of the CardSelector: a rank key, then a suit key.     *)
(* Time is counted in units of 1000 ms; a timeout runs at its deadline or   *)
(* later, whenever the event loop gets to it.                               *)
(***************************************************************************)

\* the setTimeout delay and the `now - lastKeyTime < 2000` window
Timeout == 2

\* the rank and suit keys pressed here, of the 13 ranks and 4 suits
QuickRanks == {"2", "A"}
QuickSuits == {"c", "s"}

CardSuits == <<"c", "d", "h", "s">>
CardRanks == <<"2", "3", "4", "5", "6", "7", "8", "9", "T", "J", "Q", "K",
               "A">>

\* the class names in the order of the backend: suit by suit, rank by rank
CARD_CLASSES ==
  [i \in 1..52 |-> CardRanks[((i - 1) % 13) + 1] \o
                   CardSuits[((i - 1) \div 13) + 1]]

\* the index of the card in CARD_CLASSES, counted from 0
CLASS_TO_ID(card) == (CHOOSE i \in 1..52 : CARD_CLASSES[i] = card) - 1

\* a rank key while the listener is registered: the rank becomes the
\* pending one; the timeout effect runs again only when the rank changed
RankKey ==
  /\ QuickEnabled /\ nkeys < MaxKeys
  /\ \E rank \in QuickRanks :
       /\ pendingRank' = rank
       /\ lastKeyTime' = now
       /\ rankTimeout' = IF pendingRank = rank THEN rankTimeout
                         ELSE now + Timeout
       /\ awaiting' = rank
       /\ lastKey' = [kind |-> "rank", key |-> rank]
  /\ nkeys' = nkeys + 1
  /\ lastLabeled' = NotLabeling
  /\ UNCHANGED <<now, activeTab, tIsCapturing, videoRef, capturedImage,
                 labelCore, isAutoCapture, autoAdvance, pending>>

\* a suit key while the listener is registered
SuitKey ==
  /\ QuickEnabled /\ nkeys < MaxKeys
  /\ \E suit \in QuickSuits :
       /\ IF pendingRank # NoRank
          THEN /\ IF now - lastKeyTime < Timeout
                  THEN handleKeyboardSelect(CLASS_TO_ID(pendingRank \o suit))
                  ELSE /\ lastLabeled' = NotLabeling
                       /\ UNCHANGED <<labelCore, pending>>
               /\ pendingRank' = NoRank
               /\ rankTimeout' = NoDeadline
          ELSE /\ lastLabeled' = NotLabeling
               /\ UNCHANGED <<labelCore, pending, pendingRank, rankTimeout>>
       /\ lastKey' = [kind |-> "suit", key |-> suit]
  /\ awaiting' = NoRank
  /\ nkeys' = nkeys + 1
  /\ UNCHANGED <<now, lastKeyTime, activeTab, tIsCapturing, videoRef,
                 capturedImage, isAutoCapture, autoAdvance>>

\* the timeout of the pending rank runs
RankTimeout ==
  /\ rankTimeout # NoDeadline /\ now >= rankTimeout
  /\ pendingRank' = NoRank
  /\ rankTimeout' = NoDeadline
  /\ UNCHANGED <<lastKeyTime, now, nkeys, lastKey, awaiting, labelVars>>

\* 1000 ms pass
Elapse ==
  /\ now < MaxTime
  /\ now' = now + 1
  /\ UNCHANGED <<pendingRank, lastKeyTime, rankTimeout, nkeys, lastKey,
                 awaiting, labelVars>>

(***************************************************************************)
(* saveToDataset up to its request, as a function of what it reads: the     *)
(* still image, its size, the boxes to save and the auto-capture flag.      *)
(* Boxes carry their geometry here.  A JavaScript number is a fraction      *)
(* [num, den]; a denominator 0 stands for Infinity and NaN, the results of  *)
(* a division by zero, which JSON.stringify writes as null.                 *)
(***************************************************************************)

Rat(n, d) == [num |-> n, den |-> d]
RatAdd(a, b) == Rat(a.num * b.den + b.num * a.den, a.den * b.den)
RatDiv(a, n) == Rat(a.num, a.den * n)
Null == Rat(0, 0)

\* JSON.stringify of a number
JsonNumber(a) == IF a.den = 0 THEN Null ELSE a

\* (b.x + b.width / 2) / imageSize.width, and the same for y
Center(pos, extent, size) ==
  RatDiv(RatAdd(Rat(pos, 1), RatDiv(Rat(extent, 1), 2)), size)

\* b.width / imageSize.width
Extent(extent, size) == RatDiv(Rat(extent, 1), size)

\* the early returns passed with every box counted as labeled
labeledBoxesUnfiltered(b) == b

\* saveBoxes.filter(b => b.classId !== undefined)
labeledBoxes(b) == SelectSeq(b, LAMBDA x : x.classId # NoClass)

\* the boxes entry of the request body
boxesData(b, size) ==
  [i \in 1..Len(b) |->
     [class_id |-> b[i].classId,
      x_center |-> JsonNumber(Center(b[i].x, b[i].width, size.width)),
      y_center |-> JsonNumber(Center(b[i].y, b[i].height, size.height)),
      width    |-> JsonNumber(Extent(b[i].width, size.width)),
      height   |-> JsonNumber(Extent(b[i].height, size.height))]]

\* saveToDataset(boxes) up to the fetch: what it posts and whether it alerts
saveToDataset(a) ==
  IF a.image = NoImage \/ Len(a.boxes) = 0
  THEN [post |-> FALSE, body |-> <<>>, alert |-> FALSE]
  ELSE IF Len(labeledBoxes(a.boxes)) = 0
  THEN [post |-> FALSE, body |-> <<>>, alert |-> ~a.auto]
  ELSE [post |-> TRUE, body |-> boxesData(labeledBoxes(a.boxes), a.size),
        alert |-> FALSE]

\* geometry of the regions and sizes of the still images tried: the region
\* of 40 x 60 pixels at (100, 100) or at (0, 100), in an image of 800 x 600
\* pixels or in the image of 0 x 0 pixels that a video element without a
\* frame yields
BoxXs == {0, 100}
BoxY == 100
BoxWidth == 40
BoxHeight == 60
ImageSizes == {[width |-> 0, height |-> 0], [width |-> 800, height |-> 600]}

\* class ids of "2c" and "Ah"
SavedClasses == {0, 38}

GeoBoxes ==
  [x : BoxXs, y : {BoxY}, width : {BoxWidth}, height : {BoxHeight},
   classId : SavedClasses \cup {NoClass}]

PersistArgs ==
  [image : {NoImage, Image}, size : ImageSizes,
   boxes : UNION {[1..n -> GeoBoxes] : n \in 0..MaxBoxes},
   auto : BOOLEAN]

PersistInit ==
  /\ StreamInit /\ urlOk = TRUE
  /\ QuickInit
  /\ DataInit
  /\ SessionInit
  /\ activeTab = "label"
  /\ tIsCapturing = FALSE
  /\ videoRef = "hidden"
  /\ capturedImage = NoImage
  /\ boxes = <<>>
  /\ selectedBoxId = NoBox
  /\ currentBoxIndex = 0
  /\ isAutoCapture = FALSE
  /\ autoAdvance = TRUE
  /\ pending = EmptyBag
  /\ lastLabeled = NotLabeling
  /\ saveArgs \in PersistArgs
  /\ saveResult = NoResult

\* one more call of saveToDataset on the same arguments
Persist ==
  LET r == saveToDataset(saveArgs)
  IN  /\ saveResult.calls < MaxCalls
      /\ saveResult' =
           [calls  |-> saveResult.calls + 1,
            posted |-> IF r.post THEN Append(saveResult.posted, r.body)
                       ELSE saveResult.posted,
            alerts |-> IF r.alert THEN saveResult.alerts + 1
                       ELSE saveResult.alerts]
      /\ UNCHANGED saveArgs

PersistNext ==
  \/ Persist /\ UNCHANGED <<jobVars, sessionVars, streamVars, labelVars, sessionCount, requests, dataVars, quickVars>>

(***************************************************************************)
(* The training status and the dataset statistics mirrored by the page.     *)
(* trainingProgress and datasetStats are the state of the page: "null"      *)
(* before the first answer, "error" when the answer was an error body,      *)
(* which has neither a status nor a total_images field.                     *)
(***************************************************************************)

\* the status values of the training service
JobStatuses == {"idle", "preparing", "training", "completed", "failed",
                "cancelled"}

\* statistics with fewer than 10 images, and with 10 or more
StatsValues == {"few", "enough"}

\* how a fetch ends: an answer with the expected body, an error answer with
\* a JSON body, or a rejected fetch or a body that is not JSON
Outcomes == {"ok", "error", "failure"}

RoomForRequest == BagCardinality(requests) < MaxRequests

\* the interval callback testing nothing
ActiveAlways(st) == TRUE

\* the test of the interval callback
Active(st) == st = "training" \/ st = "preparing"

\* the callback of setInterval(..., 2000) runs
PollTick ==
  /\ pollInterval # "none"
  /\ Active(pollInterval)
  /\ RoomForRequest
  /\ requests' = requests (+) One("status")
  /\ lastPoll' = [st |-> trainingProgress, mounted |-> tMounted]
  /\ UNCHANGED <<tMounted, trainingProgress, datasetStats, pollInterval,
                 lastFetch>>

\* setTrainingProgress(data) and the polling effect, which arms a new
\* interval when the status changed; nothing happens after the unmount
SetTrainingProgress(data) ==
  IF tMounted
  THEN /\ trainingProgress' = data
       /\ pollInterval' = data
  ELSE UNCHANGED <<trainingProgress, pollInterval>>

\* fetchTrainingStatus after the fetch: res.ok is not looked at
StatusFetched(outcome, data) ==
  IF outcome = "failure" THEN UNCHANGED <<trainingProgress, pollInterval>>
  ELSE SetTrainingProgress(data)

StatusResponseOf(outcome, st) ==
  /\ BagIn("status", requests)
  /\ requests' = requests (-) One("status")
  /\ StatusFetched(outcome, IF outcome = "ok" THEN st ELSE "error")
  /\ lastFetch' = outcome
  /\ UNCHANGED <<tMounted, datasetStats, lastPoll>>

\* a status request is answered
StatusResponse ==
  \E outcome \in Outcomes, st \in JobStatuses : StatusResponseOf(outcome, st)

StatsResponseOf(outcome, v) ==
  /\ BagIn("stats", requests)
  /\ requests' = requests (-) One("stats")
  /\ datasetStats' = IF outcome = "failure" \/ ~tMounted THEN datasetStats
                     ELSE IF outcome = "ok" THEN v ELSE "error"
  /\ lastFetch' = outcome
  /\ UNCHANGED <<tMounted, trainingProgress, pollInterval, lastPoll>>

\* fetchDatasetStats after the fetch
StatsResponse ==
  \E outcome \in Outcomes, v \in StatsValues : StatsResponseOf(outcome, v)

\* the refresh button of DatasetProgress
RefreshStats ==
  /\ tMounted /\ activeTab = "label"
  /\ RoomForRequest
  /\ requests' = requests (+) One("stats")
  /\ UNCHANGED dataVars

\* the Start button of TrainingStatus: shown while no training is active,
\* enabled with 10 images or more
StartTraining ==
  /\ tMounted
  /\ ~Active(trainingProgress) /\ datasetStats = "enough"
  /\ RoomForRequest
  /\ requests' = requests (+) One("start")
  /\ UNCHANGED dataVars

\* startTraining after the fetch: an accepted start fetches the status
StartResponse ==
  /\ BagIn("start", requests)
  /\ \E outcome \in Outcomes :
       requests' = IF outcome = "ok"
                   THEN (requests (-) One("start")) (+) One("status")
                   ELSE requests (-) One("start")
  /\ UNCHANGED dataVars

\* the Cancel button of TrainingStatus, shown while a training is active
CancelTraining ==
  /\ tMounted
  /\ Active(trainingProgress)
  /\ RoomForRequest
  /\ requests' = requests (+) One("cancel")
  /\ UNCHANGED dataVars

\* cancelTraining after the fetch: any answer fetches the status
CancelResponse ==
  /\ BagIn("cancel", requests)
  /\ \E outcome \in Outcomes :
       requests' = IF outcome = "failure"
                   THEN requests (-) One("cancel")
                   ELSE (requests (-) One("cancel")) (+) One("status")
  /\ UNCHANGED dataVars

\* the page is left: the cleanup of the polling effect clears the interval
TUnmount ==
  /\ tMounted
  /\ tMounted' = FALSE
  /\ pollInterval' = "none"
  /\ UNCHANGED <<trainingProgress, datasetStats, requests, lastPoll,
                 lastFetch>>

offJob == <<streamVars, labelVars, sessionCount, quickVars, persistVars,
            sessionVars>>
offData == <<offJob, jobVars>>

\* the page as far as the training service is concerned
PollNext ==
  \/ PollTick /\ UNCHANGED offData
  \/ StatusResponse /\ UNCHANGED offData
  \/ StatsResponse /\ UNCHANGED offData
  \/ RefreshStats /\ UNCHANGED offData
  \/ StartTraining /\ UNCHANGED offData
  \/ StartResponse /\ UNCHANGED offData
  \/ CancelTraining /\ UNCHANGED offData
  \/ CancelResponse /\ UNCHANGED offData
  \/ TUnmount /\ UNCHANGED offData

\* the labeling view in manual mode
LabelNext ==
  \/ TStartCapture /\ UNCHANGED offLabel
  \/ TStopCapture /\ UNCHANGED offLabel
  \/ TTrackEnded /\ UNCHANGED offLabel
  \/ TCaptureFrame /\ UNCHANGED offLabel
  \/ DetectClick /\ UNCHANGED offLabel
  \/ DetectResponse /\ UNCHANGED offLabel
  \/ DetectFail /\ UNCHANGED offLabel
  \/ BoxCreate /\ UNCHANGED offLabel
  \/ BoxSelect /\ UNCHANGED offLabel
  \/ BoxDeselect /\ UNCHANGED <<jobVars, sessionVars, streamVars, sessionCount, requests, dataVars, persistVars>>
  \/ BoxDelete /\ UNCHANGED offLabel
  \/ Navigate /\ UNCHANGED offLabel
  \/ AssignLabel /\ UNCHANGED offLabel
  \/ SaveClick /\ UNCHANGED offLabel
  \/ SaveResponse /\ UNCHANGED <<jobVars, sessionVars, streamVars, dataVars, quickVars, persistVars>>
  \/ SetActiveTab /\ UNCHANGED <<jobVars, sessionVars, streamVars, sessionCount, requests, dataVars, persistVars>>
  \/ SetAutoAdvance /\ UNCHANGED offLabel

\* the labeling view with the auto-capture mode
TrainNext ==
  \/ LabelNext
  \/ SetIsAutoCapture /\ UNCHANGED offLabel
  \/ AutoCaptureTick /\ UNCHANGED offLabel
  \/ CaptureTimer /\ UNCHANGED offLabel
  \/ SaveTimer /\ UNCHANGED offLabel

(***************************************************************************)
(* Observation of the streaming client: what has been called and counted.   *)
(* These variables are read by no operation of the program.                 *)
(***************************************************************************)

\* the owner called connect()
ObsConnect ==
  /\ stopped' = FALSE
  /\ explicitConnects' = IF explicitConnects = 0 THEN 1 ELSE 2
  /\ UNCHANGED <<everDisconnected, retries, sendCalls, txCount>>

\* disconnect() was called, by the owner or by the unmount cleanup
ObsDisconnect ==
  /\ everDisconnected' = TRUE
  /\ stopped' = TRUE
  /\ UNCHANGED <<explicitConnects, retries, sendCalls, txCount>>

\* a reconnect timeout ran connect(), which made an attempt unless it
\* returned early
ObsRetry ==
  /\ retries' = IF RefOpen THEN retries ELSE retries + 1
  /\ UNCHANGED <<everDisconnected, stopped, explicitConnects, sendCalls, txCount>>

\* sendFrame was called; the frame went to the socket or not
ObsSend ==
  /\ sendCalls < MaxSends
  /\ sendCalls' = sendCalls + 1
  /\ txCount' = IF lastSend'.tx THEN txCount + 1 ELSE txCount
  /\ UNCHANGED <<everDisconnected, stopped, explicitConnects, retries>>

ObsNone == UNCHANGED wsObs

\* the analysis view: the streaming client, the frame source and the frame
\* scheduler
StreamNext ==
  \/ Connect /\ ObsNone /\ UNCHANGED pageVars
  \/ Disconnect /\ ObsNone /\ UNCHANGED pageVars
  \/ \E s \in Sockets : SocketOpen(s) /\ ObsNone /\ UNCHANGED pageVars
  \/ \E s \in Sockets : SocketError(s) /\ ObsNone /\ UNCHANGED pageVars
  \/ \E s \in Sockets : SocketClose(s) /\ ObsNone /\ UNCHANGED pageVars
  \/ \E t \in timers : ReconnectTimer(t) /\ ObsNone /\ UNCHANGED pageVars
  \/ StartCapture /\ ObsNone /\ UNCHANGED pageVars
  \/ StopCapture /\ ObsNone /\ UNCHANGED pageVars
  \/ \E s \in Streams : TrackEnded(s) /\ ObsNone /\ UNCHANGED pageVars
  \/ \E iv \in intervals : Tick(iv) /\ ObsNone /\ UNCHANGED pageVars
  \/ HandleAnalyze /\ ObsNone /\ UNCHANGED pageVars
  \/ \E b \in BOOLEAN : SetAutoAnalyze(b) /\ ObsNone /\ UNCHANGED pageVars
  \/ \E f \in FpsOptions : SetFps(f) /\ ObsNone /\ UNCHANGED pageVars
  \/ Teardown /\ ObsNone /\ UNCHANGED pageVars

vars == <<streamVars, pageVars>>

Init == StreamInit /\ LabelInit /\ SessionInit
Next == StreamNext
Spec == Init /\ [][Next]_vars

\* the streaming client alone, observed: the owner only connects,
\* disconnects, sends and unmounts
WSNext ==
  \/ Connect /\ ObsConnect /\ UNCHANGED pageVars
  \/ Disconnect /\ ObsDisconnect /\ UNCHANGED pageVars
  \/ (\E s \in Sockets : SocketOpen(s)) /\ ObsNone /\ UNCHANGED pageVars
  \/ (\E s \in Sockets : SocketError(s)) /\ ObsNone /\ UNCHANGED pageVars
  \/ (\E s \in Sockets : SocketClose(s)) /\ ObsNone /\ UNCHANGED pageVars
  \/ (\E t \in timers : ReconnectTimer(t)) /\ ObsRetry /\ UNCHANGED pageVars
  \/ SendFrame /\ ObsSend /\ UNCHANGED pageVars
  \/ Teardown /\ ObsDisconnect /\ UNCHANGED pageVars

SpecWS == Init /\ [][WSNext]_vars

\* a reconnect timeout that is armed runs
RetryRuns ==
  (\E t \in timers : ReconnectTimer(t)) /\ ObsRetry /\ UNCHANGED pageVars

\* the close event that the browser dispatches after an error event
CloseAfterError ==
  /\ inTask # NoSocket
  /\ SocketClose(inTask) /\ ObsNone /\ UNCHANGED pageVars

\* the streaming client under the scheduling of the event loop: an armed
\* timeout runs, and the close event follows the error event
SpecWSFair ==
  Init /\ [][WSNext]_vars /\ WF_vars(RetryRuns) /\ WF_vars(CloseAfterError)

\* the labeling view does not use the socket
LabelStart == StreamInit /\ LabelInit /\ SessionInit /\ urlOk = TRUE

\* the labeling view, manual mode
SpecLabel == LabelStart /\ [][LabelNext]_vars

\* the labeling view
SpecTrain == LabelStart /\ [][TrainNext]_vars

\* the labeling view used with the auto-capture mode: frames are captured
\* by the button, the interval or the timeout after a save, regions come
\* from the detection, the user picks regions and cards and switches the
\* two options
AutoNext ==
  \/ TStartCapture /\ UNCHANGED offLabel
  \/ TStopCapture /\ UNCHANGED offLabel
  \/ TCaptureFrame /\ UNCHANGED offLabel
  \/ AutoCaptureTick /\ UNCHANGED offLabel
  \/ CaptureTimer /\ UNCHANGED offLabel
  \/ DetectResponse /\ UNCHANGED offLabel
  \/ DetectFail /\ UNCHANGED offLabel
  \/ BoxSelect /\ UNCHANGED offLabel
  \/ AssignLabel /\ UNCHANGED offLabel
  \/ SaveClick /\ UNCHANGED offLabel
  \/ SaveTimer /\ UNCHANGED offLabel
  \/ SaveResponse /\ UNCHANGED <<jobVars, sessionVars, streamVars, dataVars, quickVars, persistVars>>
  \/ SetIsAutoCapture /\ UNCHANGED offLabel
  \/ SetAutoAdvance /\ UNCHANGED offLabel

SpecAuto == LabelStart /\ [][AutoNext]_vars

\* the labeling view used with the keyboard: a frame is captured, regions
\* are drawn, picked and dropped, ranks and suits are typed, time passes
QuickNext ==
  \/ TStartCapture /\ UNCHANGED offLabel
  \/ TCaptureFrame /\ UNCHANGED offLabel
  \/ DetectFail /\ UNCHANGED offLabel
  \/ BoxCreate /\ UNCHANGED offLabel
  \/ BoxSelect /\ UNCHANGED offLabel
  \/ BoxDeselect /\ UNCHANGED <<jobVars, sessionVars, streamVars, sessionCount, requests, dataVars, persistVars>>
  \/ SetActiveTab /\ UNCHANGED <<jobVars, sessionVars, streamVars, sessionCount, requests, dataVars, persistVars>>
  \/ SetAutoAdvance /\ UNCHANGED offLabel
  \/ RankKey /\ UNCHANGED <<jobVars, sessionVars, streamVars, sessionCount, requests, dataVars, persistVars>>
  \/ SuitKey /\ UNCHANGED <<jobVars, sessionVars, streamVars, sessionCount, requests, dataVars, persistVars>>
  \/ RankTimeout /\ UNCHANGED <<jobVars, sessionVars, streamVars, sessionCount, requests, dataVars, persistVars>>
  \/ Elapse /\ UNCHANGED <<jobVars, sessionVars, streamVars, sessionCount, requests, dataVars, persistVars>>

SpecQuick == LabelStart /\ [][QuickNext]_vars

SpecPoll == LabelStart /\ [][PollNext]_vars

(***************************************************************************)
(* The page together with the training job of the service.  The service is  *)
(* not part of the front end: a start it accepted leaves the job "accepted" *)
(* (reported as idle) until the job begins with preparing; the job then     *)
(* trains and ends.                                                         *)
(***************************************************************************)

TerminalStatuses == {"completed", "failed", "cancelled"}

\* the status the service reports for its job
JobReported(j) == IF j = "accepted" THEN "idle" ELSE j

JobActive(j) == j \in {"accepted", "preparing", "training"}

\* the job moves on by itself
JobAdvance ==
  /\ \/ job = "accepted" /\ job' = "preparing"
     \/ job = "preparing" /\ job' = "training"
     \/ job = "training" /\ job' \in {"completed", "failed"}
  /\ UNCHANGED <<dataVars, requests>>

\* a status request is answered with the status of the job
JobStatusResponseOf(outcome) ==
  /\ StatusResponseOf(outcome, JobReported(job))
  /\ UNCHANGED job

JobStatusResponse == \E outcome \in Outcomes : JobStatusResponseOf(outcome)

\* the answer to POST /api/training/start: the service accepts the start
\* when it has no job; one job is followed from its start to its end
JobStartResponse ==
  /\ StartResponse
  /\ LET accepted == CopiesIn("status", requests') >
                        CopiesIn("status", requests)
     IN  /\ accepted => job = "idle"
         /\ job' = IF accepted THEN "accepted" ELSE job

\* the answer to POST /api/training/cancel: a job under way is cancelled
JobCancelResponse ==
  /\ CancelResponse
  /\ LET reached == CopiesIn("status", requests') >
                       CopiesIn("status", requests)
     IN  job' = IF reached /\ JobActive(job) THEN "cancelled" ELSE job

JobNext ==
  \/ PollTick /\ UNCHANGED offData
  \/ JobStatusResponse /\ UNCHANGED offJob
  \/ StatsResponse /\ UNCHANGED offData
  \/ StartTraining /\ UNCHANGED offData
  \/ JobStartResponse /\ UNCHANGED offJob
  \/ CancelTraining /\ UNCHANGED offData
  \/ JobCancelResponse /\ UNCHANGED offJob
  \/ JobAdvance /\ UNCHANGED offJob
  \/ TUnmount /\ UNCHANGED offData

\* the interval callback runs every 2000 ms, requests are answered, and a
\* status request that is sent again and again is answered with the
\* expected body at some time; the job moves on; the user need not act
SpecJobFair ==
  /\ LabelStart /\ [][JobNext]_vars
  /\ SF_vars(PollTick /\ UNCHANGED offData)
  /\ SF_vars(JobStatusResponseOf("ok") /\ UNCHANGED offJob)
  /\ WF_vars(StatsResponse /\ UNCHANGED offData)
  /\ WF_vars(JobStartResponse /\ UNCHANGED offJob)
  /\ WF_vars(JobCancelResponse /\ UNCHANGED offJob)
  /\ WF_vars(JobAdvance /\ UNCHANGED offJob)

\* the labeling view with the auto-capture mode where regions are also
\* drawn by hand and detection is also asked for by its button
AssignNext ==
  \/ TStartCapture /\ UNCHANGED offLabel
  \/ TStopCapture /\ UNCHANGED offLabel
  \/ TCaptureFrame /\ UNCHANGED offLabel
  \/ AutoCaptureTick /\ UNCHANGED offLabel
  \/ CaptureTimer /\ UNCHANGED offLabel
  \/ DetectClick /\ UNCHANGED offLabel
  \/ DetectResponse /\ UNCHANGED offLabel
  \/ DetectFail /\ UNCHANGED offLabel
  \/ BoxCreate /\ UNCHANGED offLabel
  \/ BoxSelect /\ UNCHANGED offLabel
  \/ AssignLabel /\ UNCHANGED offLabel
  \/ SaveTimer /\ UNCHANGED offLabel
  \/ SaveResponse /\ UNCHANGED <<jobVars, sessionVars, streamVars, dataVars, quickVars, persistVars>>
  \/ SetIsAutoCapture /\ UNCHANGED offLabel
  \/ SetAutoAdvance /\ UNCHANGED offLabel

SpecAssign == LabelStart /\ [][AssignNext]_vars

\* the page is left while the labeling view is shown: the elements are
\* unmounted, which clears videoRef, and the cleanups of the interval
\* effects run
PageUnmount ==
  /\ tMounted
  /\ tMounted' = FALSE
  /\ videoRef' = "none"
  /\ pollInterval' = "none"
  /\ lastLabeled' = NotLabeling
  /\ UNCHANGED <<activeTab, tIsCapturing, capturedImage, labelCore,
                 isAutoCapture, autoAdvance, pending, trainingProgress,
                 datasetStats, lastPoll, lastFetch, sessionCount, requests,
                 quickVars, persistVars, streamVars, sessionVars, jobVars>>

\* the labeling view with the auto-capture mode until the page is left:
\* the buttons, the interval and the answers need the mounted page, the
\* timeout armed by a save runs in any case
StopNext ==
  \/ tMounted /\ TStartCapture /\ UNCHANGED offLabel
  \/ tMounted /\ TStopCapture /\ UNCHANGED offLabel
  \/ tMounted /\ TTrackEnded /\ UNCHANGED offLabel
  \/ tMounted /\ TCaptureFrame /\ UNCHANGED offLabel
  \/ tMounted /\ AutoCaptureTick /\ UNCHANGED offLabel
  \/ CaptureTimer /\ UNCHANGED offLabel
  \/ tMounted /\ DetectResponse /\ UNCHANGED offLabel
  \/ tMounted /\ DetectFail /\ UNCHANGED offLabel
  \/ tMounted /\ BoxSelect /\ UNCHANGED offLabel
  \/ tMounted /\ AssignLabel /\ UNCHANGED offLabel
  \/ tMounted /\ SaveClick /\ UNCHANGED offLabel
  \/ tMounted /\ SaveTimer /\ UNCHANGED offLabel
  \/ tMounted /\ SaveResponse /\ UNCHANGED <<jobVars, sessionVars, streamVars, dataVars, quickVars, persistVars>>
  \/ tMounted /\ SetIsAutoCapture /\ UNCHANGED offLabel
  \/ PageUnmount

SpecStop == LabelStart /\ [][StopNext]_vars

(***************************************************************************)
(* The still images told apart.  A request or a timeout belongs to the      *)
(* still image of the render whose closure it holds: autoDetect and the     *)
(* saveToDataset it calls later read the capturedImage of the render that   *)
(* started the detection; handleCardSelect and the Save button read the     *)
(* current one (capturedImage only changes together with boxes, which       *)
(* re-creates handleCardSelect); a request sent by a timeout belongs to the *)
(* image of the timeout.                                                    *)
(***************************************************************************)

Tagged(x, i) == [rec |-> x, img |-> i]

\* the image a new request or timeout x belongs to, when the step took a
\* request or timeout of image i from the bag (taken) or took none
ImageOf(x, taken, i) ==
  IF x.k = "captureTimer" THEN 0
  ELSE IF x.k \in {"saveTimer", "save"} /\ taken THEN i
  ELSE imageNo'

\* the bookkeeping of a step of the labeling view; capture tells whether
\* captureFrame found a video element and took a snapshot
ObsSession(capture) ==
  LET removed == pending (-) pending'
      added == pending' (-) pending
      taken == removed # EmptyBag
  IN  /\ capture => imageNo < MaxImages
      /\ imageNo' = IF capture THEN imageNo + 1 ELSE imageNo
      /\ \E i \in 0..MaxImages :
           LET out == IF taken
                      THEN One(Tagged(CHOOSE x \in BagToSet(removed) : TRUE, i))
                      ELSE EmptyBag
               x == CHOOSE x \in BagToSet(added) : TRUE
               in == IF added = EmptyBag THEN EmptyBag
                     ELSE Copies(Tagged(x, ImageOf(x, taken, i)), added[x])
               sent == added # EmptyBag /\ x.k = "save"
           IN  /\ IF taken THEN out \sqsubseteq origin ELSE i = 0
               /\ origin' = (origin (-) out) (+) in
               /\ posted' = IF sent
                             THEN [posted EXCEPT ![ImageOf(x, taken, i)] =
                                     IF @ < 2 THEN @ + 1 ELSE 2]
                             ELSE posted
      /\ UNCHANGED inFlightLimit

\* two requests or timeouts may be outstanding at a time
SessionStart ==
  /\ StreamInit /\ LabelInit /\ urlOk = TRUE
  /\ imageNo = 0
  /\ origin = EmptyBag
  /\ posted = [i \in 1..MaxImages |-> 0]
  /\ inFlightLimit = MaxInFlight + 1

offSession == <<streamVars, sessionCount, requests, dataVars, quickVars,
                persistVars, jobVars>>
offSessionKeys == <<streamVars, sessionCount, requests, dataVars,
                    persistVars, jobVars>>

\* the labeling view with the auto-capture mode and the still images told
\* apart: frames are captured, detections asked for and answered, the
\* regions they return saved
SessionNext ==
  \/ TStartCapture /\ ObsSession(FALSE) /\ UNCHANGED offSession
  \/ TCaptureFrame /\ ObsSession(videoRef # "none") /\ UNCHANGED offSession
  \/ AutoCaptureTick /\ ObsSession(videoRef # "none") /\ UNCHANGED offSession
  \/ CaptureTimer /\ ObsSession(videoRef # "none") /\ UNCHANGED offSession
  \/ DetectClick /\ ObsSession(FALSE) /\ UNCHANGED offSession
  \/ DetectResponse /\ ObsSession(FALSE) /\ UNCHANGED offSession
  \/ SaveClick /\ ObsSession(FALSE) /\ UNCHANGED offSession
  \/ SaveTimer /\ ObsSession(FALSE) /\ UNCHANGED offSession
  \/ SaveResponse /\ ObsSession(FALSE)
       /\ UNCHANGED <<streamVars, dataVars, quickVars, persistVars, jobVars>>
  \/ SetIsAutoCapture /\ ObsSession(FALSE) /\ UNCHANGED offSession

SpecSession == SessionStart /\ [][SessionNext]_vars

\* everything that submits a still image: the detection in the auto-capture
\* mode, the last label given by a card button or by the keyboard, the Save
\* button
SubmitNext ==
  \/ TStartCapture /\ ObsSession(FALSE) /\ UNCHANGED offSession
  \/ TCaptureFrame /\ ObsSession(videoRef # "none") /\ UNCHANGED offSession
  \/ DetectResponse /\ ObsSession(FALSE) /\ UNCHANGED offSession
  \/ AssignLabel /\ ObsSession(FALSE) /\ UNCHANGED offSession
  \/ RankKey /\ ObsSession(FALSE) /\ UNCHANGED offSessionKeys
  \/ SuitKey /\ ObsSession(FALSE) /\ UNCHANGED offSessionKeys
  \/ SaveClick /\ ObsSession(FALSE) /\ UNCHANGED offSession
  \/ SaveTimer /\ ObsSession(FALSE) /\ UNCHANGED offSession
  \/ SaveResponse /\ ObsSession(FALSE)
       /\ UNCHANGED <<streamVars, dataVars, quickVars, persistVars, jobVars>>
  \/ SetIsAutoCapture /\ ObsSession(FALSE) /\ UNCHANGED offSession

SpecSubmit == SessionStart /\ [][SubmitNext]_vars

\* saveToDataset called on any arguments, any number of times
SpecPersist == PersistInit /\ [][PersistNext]_vars

(***************************************************************************)
(* Properties of the streaming client and of the frame scheduler            *)
(***************************************************************************)

\* C1: at most one physical connection (a socket that is connecting or open)
\* exists at a time, whatever connect(), disconnect(), socket events and
\* reconnect timeouts have happened.
C1_OnePhysicalConnection == Cardinality(LiveSockets) <= 1

\* C2: once disconnect() has been called and until connect() is called again
\* explicitly, no connection attempt is made (no socket is constructed and no
\* reconnect timeout runs connect()), also after the close event of the
\* socket that disconnect() closed.
C2_DisconnectStopsRetrying ==
  [][(stopped /\ stopped') => (nsock' = nsock /\ retries' = retries)]_vars

C4_SendOnlyWhenConnected ==
  [][txCount' # txCount =>
       /\ status = "connected"
       /\ sendCalls' = sendCalls + 1
       /\ txCount' = txCount + 1]_vars

\* a frame was passed to sendFrame while connecting, the connection has
\* opened since, and nothing was transmitted
C4_Witness ==
  /\ lastSend.by = "api" /\ lastSend.st = "connecting" /\ ~lastSend.tx
  /\ status = "connected" /\ RefOpen
  /\ txCount = 0

\* C5: the periodic tick and the manual trigger call sendFrame only while
\* the state is connected and capture is active.
C5_SchedulerSendsOnlyWhenReady ==
  lastSend.by \in {"tick", "manual"} =>
    (lastSend.st = "connected" /\ lastSend.cap)

\* the periodic tick has sent a frame, which was transmitted
C5_Witness == lastSend.by = "tick" /\ lastSend.tx

\* C6: at most one interval is armed; an armed interval runs at the current
\* rate, and none is armed unless auto-analyze is on, capture is active, the
\* state is connected and the owner is mounted.
C6_OneTimerOnlyWhileRunning ==
  /\ Cardinality(intervals) <= 1
  /\ \A iv \in intervals :
       /\ iv.fps = fps
       /\ SchedulerOn(autoAnalyze, isCapturing, status)
       /\ mounted

\* a rate change has just replaced the armed interval
C6_Witness == lastSched = "replaced" /\ Cardinality(intervals) = 1

(***************************************************************************)
(* Properties of the labeling view (SpecLabel)                             *)
(***************************************************************************)

\* the index auto-advance is to reach after the region at index k got its
\* label: the lowest unlabeled index above k, else the lowest unlabeled one
AdvanceTarget(b, k) ==
  IF {i \in Unlabeled(b) : i > k} # {} THEN Min({i \in Unlabeled(b) : i > k})
  ELSE Min(Unlabeled(b))

\* C7: after any sequence of capture, detection, create, delete, select,
\* assignLabel and save-clear, the selection id, when non-null, is the id
\* of a region currently in the collection.
C7_SelectionIsExistingRegion ==
  selectedBoxId # NoBox => selectedBoxId \in BoxIds(boxes)

\* C8: whenever the region collection is non-empty, the cursor is a valid
\* index into it: 0 <= cursor < number of regions.
C8_CursorInRange ==
  Len(boxes) > 0 => (0 <= currentBoxIndex /\ currentBoxIndex < Len(boxes))

\* C8 witness: assignLabel on the first region, picked by pointer, advanced
\* the cursor to the last index of a full collection whose last region was
\* drawn by hand.
C8_Witness ==
  /\ lastLabeled = 0 /\ autoAdvance
  /\ Len(boxes) = MaxBoxes
  /\ currentBoxIndex = Len(boxes) - 1
  /\ boxes[Len(boxes)].id >= MaxBoxes
  /\ boxes[1].classId # NoClass

\* C9: after assignLabel, auto-advance included, if an unlabeled region
\* remains then the cursor points to an unlabeled region, whichever region
\* was labeled.
C9_CursorOnUnlabeledAfterAssign ==
  (lastLabeled >= 0 /\ autoAdvance /\ Unlabeled(boxes) # {})
    => currentBoxIndex \in Unlabeled(boxes)

\* C10: auto-advance after assignLabel on the region at index k puts the
\* cursor on the lowest unlabeled index j > k, or else on the lowest
\* unlabeled index j >= 0.
C10_AdvanceIsFunctionOfCollectionAndK ==
  (lastLabeled >= 0 /\ autoAdvance /\ Unlabeled(boxes) # {})
    => currentBoxIndex = AdvanceTarget(boxes, lastLabeled)

(***************************************************************************)
(* Properties of saving, detection and deletion in the labeling view        *)
(***************************************************************************)

\* number of armed settle-delay timeouts, and of save requests in flight
SaveTimers(p) ==
  CopiesIn(Pending("saveTimer", TRUE), p) + CopiesIn(Pending("saveTimer", FALSE), p)
SaveRequests(p) ==
  CopiesIn(Pending("save", TRUE), p) + CopiesIn(Pending("save", FALSE), p)

\* C11 as claimed: an assignLabel arms a save exactly when, after it, no
\* region of the collection is unlabeled and the auto-capture mode is on; the
\* request is not sent in the step of the assignment but by the settle-delay
\* timeout; an assignLabel that leaves a region unlabeled, or one in manual
\* mode, arms nothing.
C11_SaveExactlyWhenCompleteInAuto ==
  [][lastLabeled' >= 0 =>
       /\ (SaveTimers(pending') > SaveTimers(pending))
            <=> (Unlabeled(boxes') = {} /\ isAutoCapture)
       /\ SaveRequests(pending') = SaveRequests(pending)]_vars

\* C11: an assignLabel arms a save exactly when, after it, no region of the
\* collection is unlabeled, the auto-capture mode is on and the auto-advance
\* option is on; the request is not sent in the step of the assignment but
\* by the settle-delay timeout; an assignLabel that leaves a region
\* unlabeled, or one in manual mode, arms nothing.
C11_SaveWhenCompleteInAutoAdvancing ==
  [][lastLabeled' >= 0 =>
       /\ (SaveTimers(pending') > SaveTimers(pending))
            <=> (Unlabeled(boxes') = {} /\ isAutoCapture /\ autoAdvance)
       /\ SaveRequests(pending') = SaveRequests(pending)]_vars

\* C11 witness: the assignLabel just made completed the session in
\* auto-capture mode and its settle-delay timeout is armed, no request sent
C11_Witness ==
  /\ lastLabeled >= 0 /\ isAutoCapture /\ autoAdvance
  /\ Len(boxes) > 1 /\ Unlabeled(boxes) = {}
  /\ SaveTimers(pending) = 1 /\ SaveRequests(pending) = 0

\* C15: when a detection response is a non-empty list in which every
\* region has a label and the auto-capture mode is on, a settle-delay
\* timeout for the save is armed and no save request is sent in that step;
\* when a region of the response has no label, or the mode is manual, the
\* response arms nothing.
C15_DetectionArmsSaveOnlyInAuto ==
  [][\A f \in BOOLEAN, res \in DetectionResults :
       DetectResponseOf(f, res) =>
         /\ (SaveTimers(pending') = SaveTimers(pending) + 1)
              <=> (/\ Len(res) > 0
                   /\ \A i \in 1..Len(res) : res[i] # NoClass
                   /\ isAutoCapture)
         /\ SaveTimers(pending') >= SaveTimers(pending)
         /\ SaveRequests(pending') = SaveRequests(pending)]_vars

\* C14: when a save request completes with success (the session counter
\* goes up) the session is cleared: no still image, no region, no
\* selection, cursor 0, and one more request for the dataset statistics is
\* in flight; when it completes otherwise, and when a settle-delay timeout
\* fires, the still image, the regions, the selection, the cursor and the
\* session counter are unchanged and no statistics are requested.
C14_SaveClearsOrLeavesUnchanged ==
  [][(SaveRequests(pending') < SaveRequests(pending)
        \/ SaveTimers(pending') < SaveTimers(pending)) =>
       IF sessionCount' # sessionCount
       THEN /\ SaveRequests(pending') < SaveRequests(pending)
            /\ sessionCount' = sessionCount + 1
            /\ capturedImage' = NoImage
            /\ boxes' = <<>>
            /\ selectedBoxId' = NoBox
            /\ currentBoxIndex' = 0
            /\ CopiesIn("stats", requests') = CopiesIn("stats", requests) + 1
       ELSE /\ UNCHANGED <<capturedImage, boxes, selectedBoxId,
                           currentBoxIndex>>
            /\ requests' = requests]_vars

\* C14 witness: a save made in auto-capture mode has succeeded: the session
\* is cleared, the counter is 1, the refresh of the statistics is in flight
\* besides the initial fetch, and the next capture is armed
C14_Witness ==
  /\ sessionCount = 1
  /\ capturedImage = NoImage /\ boxes = <<>>
  /\ selectedBoxId = NoBox /\ currentBoxIndex = 0
  /\ CopiesIn("stats", requests) = 2
  /\ BagIn(Pending("captureTimer", FALSE), pending)

(***************************************************************************)
(* Properties of saveToDataset (SpecPersist)                                *)
(***************************************************************************)

\* C12: a call with no labeled region (an empty collection, or one in which
\* no region has a label) sends no request, however often it is repeated;
\* nothing but the calls made has happened.
C12_NothingSentWithoutLabels ==
  Len(SelectSeq(saveArgs.boxes, LAMBDA x : x.classId # NoClass)) = 0 =>
    /\ saveResult.posted = <<>>
    /\ saveResult.alerts <= saveResult.calls

\* C12 witness: saveToDataset was called MaxCalls times on an image with
\* regions none of which has a label, in manual mode, and posted nothing
C12_Witness ==
  /\ saveArgs.image # NoImage /\ ~saveArgs.auto
  /\ Len(saveArgs.boxes) = 2
  /\ \A i \in 1..2 : saveArgs.boxes[i].classId = NoClass
  /\ saveResult.calls = MaxCalls
  /\ saveResult.posted = <<>>
  /\ saveResult.alerts = MaxCalls

\* the regions of b that have a label, in order
LabeledOf(b) == SelectSeq(b, LAMBDA x : x.classId # NoClass)

\* the fraction q is the number n / d
IsFraction(q, n, d) == q.den # 0 /\ d # 0 /\ q.num * d = n * q.den

\* C13: every posted box list has one entry per labeled region of the
\* collection, in order, none for an unlabeled region, class id 0 included;
\* each entry is the region's class id with x_center = (x + width/2) /
\* imageWidth, y_center = (y + height/2) / imageHeight, width = width /
\* imageWidth and height = height / imageHeight.
C13_PostedBoxesAreNormalisedLabeledRegions ==
  \A k \in 1..Len(saveResult.posted) :
    LET body == saveResult.posted[k]
        lab == LabeledOf(saveArgs.boxes)
        W == saveArgs.size.width
        H == saveArgs.size.height
    IN  /\ Len(body) = Len(lab)
        /\ \A i \in 1..Len(body) :
             /\ body[i].class_id = lab[i].classId
             /\ IsFraction(body[i].x_center, 2 * lab[i].x + lab[i].width, 2 * W)
             /\ IsFraction(body[i].y_center, 2 * lab[i].y + lab[i].height, 2 * H)
             /\ IsFraction(body[i].width, lab[i].width, W)
             /\ IsFraction(body[i].height, lab[i].height, H)

(***************************************************************************)
(* Properties of the keyboard input of the CardSelector (SpecQuick)         *)
(***************************************************************************)

\* the step is a key press heard by the CardSelector
KeyStep(kind) == nkeys' = nkeys + 1 /\ lastKey'.kind = kind

\* the class of the selected region after the step
SelectedClassAfter ==
  boxes'[findIndex(boxes, selectedBoxId) + 1].classId

\* the regions other than the selected one are as before the step
OthersUnchanged ==
  /\ Len(boxes') = Len(boxes)
  /\ \A i \in 1..Len(boxes) :
       boxes[i].id # selectedBoxId => boxes'[i] = boxes[i]

\* the rank typed last is still to be completed and its window is open
InWindow == awaiting # NoRank /\ now - lastKeyTime < Timeout

\* C16: a suit key typed within the timeout after a rank key gives the
\* selected region, and no other, the class of rank+suit; a suit key typed
\* after the timeout has elapsed changes no region and leaves no pending
\* rank; a suit key with no pending rank changes no region; a rank key
\* alone, the passing of time and the discarding of the pending rank change
\* no region.
C16_RankThenSuitAssignsCard ==
  [][/\ KeyStep("suit") =>
          IF InWindow
          THEN /\ SelectedClassAfter = CLASS_TO_ID(awaiting \o lastKey'.key)
               /\ OthersUnchanged
          ELSE /\ boxes' = boxes
               /\ pendingRank' = NoRank
     /\ (pendingRank' # pendingRank /\ ~KeyStep("suit")) => boxes' = boxes
     /\ (KeyStep("rank") \/ now' # now) => boxes' = boxes]_vars

\* C17: a rank key makes its rank the pending one and sets the timeout to
\* the full delay from that key press, whatever rank was pending before;
\* as long as the window of the rank typed last is open that rank is
\* pending, and a suit key typed in the window gives the selected region
\* the class of rank+suit.
C17_RankKeyRestartsTimeout ==
  [][/\ KeyStep("rank") =>
          /\ pendingRank' = lastKey'.key
          /\ rankTimeout' = now + Timeout
     /\ InWindow => pendingRank = awaiting
     /\ (KeyStep("suit") /\ InWindow) =>
          SelectedClassAfter = CLASS_TO_ID(awaiting \o lastKey'.key)]_vars

(***************************************************************************)
(* Properties of the mirrored training status and statistics (SpecPoll)     *)
(***************************************************************************)

\* C18: the interval sends a status request only while the page is mounted
\* and the mirrored status is preparing or training: never when it is
\* completed, failed, cancelled or idle (or not known yet); once the page
\* is unmounted no interval is armed.
C18_PollOnlyWhileActive ==
  [][/\ PollTick => /\ trainingProgress \in {"preparing", "training"}
                    /\ tMounted
     /\ ~tMounted' => pollInterval' = "none"]_vars

\* the interval has polled a running training, the status has since been
\* mirrored as completed and the page has been left
C18_Witness ==
  /\ lastPoll = [st |-> "training", mounted |-> TRUE]
  /\ trainingProgress = "completed"
  /\ ~tMounted

\* C19: a status or statistics fetch that ends in a rejected fetch or in an
\* error answer leaves the mirrored status and statistics as they were and
\* leaves the interval as it was, so that a status that was preparing or
\* training is polled again.
C19_FailedFetchChangesNothing ==
  [][\A outcome \in {"error", "failure"}, st \in JobStatuses,
        v \in StatsValues :
       (StatusResponseOf(outcome, st) \/ StatsResponseOf(outcome, v)) =>
         /\ trainingProgress' = trainingProgress
         /\ datasetStats' = datasetStats
         /\ pollInterval' = pollInterval]_vars

(***************************************************************************)
(* Properties of deleting a region (SpecLabel)                              *)
(***************************************************************************)

\* C20: deleting a region removes that region and no other and leaves the
\* other regions as they are; when the deleted region was the selected one,
\* after the step no region is selected and the cursor is the previous
\* cursor minus one, and 0 at least.
C20_DeleteRemovesOneAndClearsSelection ==
  [][BoxDelete =>
       /\ boxes' = SelectSeq(boxes, LAMBDA x : x.id # selectedBoxId)
       /\ selectedBoxId \in BoxIds(boxes) => Len(boxes') = Len(boxes) - 1
       /\ selectedBoxId' = NoBox
       /\ currentBoxIndex' = IF currentBoxIndex - 1 > 0
                             THEN currentBoxIndex - 1 ELSE 0]_vars

(***************************************************************************)
(* Properties of assigning a label (SpecAssign)                             *)
(***************************************************************************)

\* C21: assigning a label sets the class of the region whose id is the
\* selected one and leaves every other region as it is; when no region has
\* that id the collection, the cursor and the selection are unchanged, no
\* save timeout is armed and no save request is sent.
C21_AssignLabelsOnlyTheMatchingRegion ==
  [][lastLabeled' # NotLabeling =>
       /\ OthersUnchanged
       /\ \E cls \in Classes :
            \A i \in 1..Len(boxes) :
              boxes[i].id = selectedBoxId =>
                boxes'[i] = [boxes[i] EXCEPT !.classId = cls]
       /\ selectedBoxId \notin BoxIds(boxes) =>
            /\ UNCHANGED <<boxes, currentBoxIndex, selectedBoxId>>
            /\ SaveTimers(pending') = SaveTimers(pending)
            /\ SaveRequests(pending') = SaveRequests(pending)]_vars

\* C21 witness: in auto-capture mode with auto-advance on, a label was
\* assigned while the selected id was the id of no region
C21_Witness ==
  /\ lastLabeled = -1 /\ selectedBoxId # NoBox
  /\ isAutoCapture /\ autoAdvance

(***************************************************************************)
(* Properties of the region ids (SpecLabel)                                 *)
(***************************************************************************)

\* C22: no two regions of the collection have the same id, and the regions
\* created by a step (all regions of a detection response, the region drawn
\* by hand) get ids that no region had before the step.
C22_RegionIdsNeverReused ==
  [][/\ Cardinality(BoxIds(boxes')) = Len(boxes')
     /\ BoxCreate => boxes'[Len(boxes')].id \notin BoxIds(boxes)
     /\ \A f \in BOOLEAN, res \in DetectionResults :
          DetectResponseOf(f, res) => BoxIds(boxes') \cap BoxIds(boxes) = {}]_vars

(***************************************************************************)
(* Liveness of the streaming client (SpecWSFair)                            *)
(***************************************************************************)

\* C23: while the owner is mounted and has not called disconnect(), the
\* error state is left and a new attempt follows: from status error the
\* client gets to connecting (or to connected, when a connection is open
\* already), unless disconnect() or the unmount come first or the sockets
\* of the model are used up.
C23_ErrorLeadsToNewAttempt ==
  (status = "error" /\ mounted /\ ~stopped)
    ~> \/ status \in {"connecting", "connected"}
       \/ stopped \/ ~mounted
       \/ nsock = MaxSockets

(***************************************************************************)
(* Properties of the capture device (Spec)                                  *)
(***************************************************************************)

\* C24: whenever capture is reported inactive (nothing started yet, after
\* a stop, after the source was revoked, after a start that failed, after
\* the unmount) no track of the capture device is live.
C24_NoTrackHeldWhenInactive == ~isCapturing => liveTracks = {}

(***************************************************************************)
(* Properties of stopping the capture in the labeling view (SpecStop)       *)
(***************************************************************************)

DetectRequests(p) ==
  CopiesIn(Pending("detect", TRUE), p) + CopiesIn(Pending("detect", FALSE), p)

\* C25: once capture is stopped (by the Stop button or because the source
\* ended) or the page is left, the auto-capture interval and the timeout
\* armed by an automatic save are cancelled: no timeout armed by a save is
\* waiting, and no step of the interval or of the timeout happens.
C25_TimersCancelledOnStop ==
  [][(~tIsCapturing' \/ ~tMounted') =>
       /\ ~BagIn(Pending("captureTimer", FALSE), pending')
       /\ (~tIsCapturing \/ ~tMounted) => ~(AutoCaptureTick \/ CaptureTimer)]_vars

\* what the timers do after the stop: their steps leave the still image,
\* the regions, the selection and the cursor as they are and start no
\* detection (the timeout finds no video element behind videoRef)
NoSnapshotAfterStop ==
  [][((~tIsCapturing \/ ~tMounted) /\ (AutoCaptureTick \/ CaptureTimer)) =>
       /\ UNCHANGED <<capturedImage, boxes, selectedBoxId, currentBoxIndex>>
       /\ DetectRequests(pending') = DetectRequests(pending)]_vars

(***************************************************************************)
(* Status and socket of the streaming client (SpecWS)                       *)
(***************************************************************************)

\* C26: while the owner is mounted, status connected means that wsRef
\* refers to an open socket (so that sendFrame transmits); when wsRef
\* refers to no open socket the status is not connected.
C26_ConnectedMeansOpenSocket ==
  mounted => /\ status = "connected" => wsRef # NoSocket /\ readyState[wsRef] = "OPEN"
             /\ ~(wsRef # NoSocket /\ readyState[wsRef] = "OPEN") => status # "connected"

(***************************************************************************)
(* Properties of the still images told apart (SpecSubmit, SpecSession)      *)
(***************************************************************************)

\* C27: each still image is submitted to the dataset store at most once:
\* whatever the auto-save after a detection, the auto-save after the last
\* label (by a card button or by the keyboard), the Save button and the
\* requests in flight do, no image has two persist requests sent for it.
C27_OnePersistRequestPerImage == \A i \in 1..MaxImages : posted[i] <= 1

\* C28: the results of asynchronous work started for one still image
\* never modify the session of a later one: while a newer still image is
\* shown, the answer to a detection of an earlier image leaves the regions
\* as they are, the save timeout of an earlier image sends no persist
\* request, and the answer to a save of an earlier image leaves the image,
\* the regions, the selection and the cursor as they are.
C28_EarlierImageLeavesSessionAlone ==
  [][\A t \in BagToSet(origin (-) origin') :
       (t.img # 0 /\ t.img # imageNo /\ capturedImage # NoImage) =>
         /\ t.rec.k = "detect" => boxes' = boxes
         /\ t.rec.k = "saveTimer" => posted' = posted
         /\ t.rec.k = "save" =>
              UNCHANGED <<capturedImage, boxes, selectedBoxId,
                          currentBoxIndex>>]_vars

(***************************************************************************)
(* The auto-advance option switched off (SpecAuto)                          *)
(***************************************************************************)

\* C30: with the auto-advance option off, a card button changes only the
\* label of the selected region: the cursor and the selection stay where
\* they were, the other regions stay as they were, and no save timeout is
\* armed and no save request is sent.
C30_AssignWithoutAdvanceMovesNothing ==
  [][(~autoAdvance /\ AssignLabel) =>
       /\ currentBoxIndex' = currentBoxIndex
       /\ selectedBoxId' = selectedBoxId
       /\ Len(boxes') = Len(boxes)
       /\ \A i \in 1..Len(boxes) :
            /\ boxes'[i].id = boxes[i].id
            /\ boxes[i].id # selectedBoxId => boxes'[i] = boxes[i]
       /\ pending' = pending]_vars

(***************************************************************************)
(* Liveness of the mirrored training status (SpecJobFair)                   *)
(***************************************************************************)

\* C29: after an accepted start, once the job is preparing or training the
\* page gets to mirror an active status or the status the job ended with,
\* and once the job has ended the page gets to mirror the status it ended
\* with, unless the page is left; whatever the status request sent right
\* after the start was answered with.
C29_StartedJobIsMirrored ==
  /\ (job \in {"preparing", "training"})
       ~> \/ trainingProgress \in {"preparing", "training"}
          \/ job \in TerminalStatuses /\ trainingProgress = job
          \/ ~tMounted
  /\ (job \in TerminalStatuses) ~> (trainingProgress = job \/ ~tMounted)

====
